---- MODULE Spec2Model ----
(***************************************************************************)
(* A model of src/main.py: the question selector (select_questions), the   *)
(* bank loader (read_question_bank), the paper generator                   *)
(* (create_question_paper) and the quota prompt (prompt_user_for_input).   *)
(*                                                                         *)
(* Python values are modelled as follows.                                  *)
(*   list            a sequence                                            *)
(*   dict            a sequence of <<key, value>> pairs in insertion order *)
(*                   (CPython >= 3.6, which the f-strings of main.py       *)
(*                   require, iterates a dict in insertion order)          *)
(*   question tuple  <<question_text, image_path, options, marks>>; the    *)
(*                   text is a number standing for the text of one line of *)
(*                   the bank file, None is the string "None"              *)
(*   exception       the name of the exception class, "None" when none has *)
(*                   been raised                                           *)
(***************************************************************************)
EXTENDS Integers, Sequences, FiniteSets

----------------------------------------------------------------------------
(* Bounds of the model. *)

\* longest list handed to select_questions on its own
MaxLen == 3
\* largest count asked of select_questions on its own
MaxN == 4
\* most lines of the sample bank file that one bank is read from
MaxLines == 3
\* largest total count per mark value, and largest sum of the per-topic counts
MaxCount == 2
\* largest number typed at a prompt
MaxInput == 1

----------------------------------------------------------------------------
(* Python dicts and lists. *)

Range(s) == {s[i] : i \in 1..Len(s)}

keys(d) == [i \in 1..Len(d) |-> d[i][1]]

has(d, k) == \E i \in 1..Len(d) : d[i][1] = k

\* d.get(k, default)
get(d, k, default) ==
    IF has(d, k) THEN d[CHOOSE i \in 1..Len(d) : d[i][1] = k][2] ELSE default

\* d[k] = v
put(d, k, v) ==
    IF has(d, k)
    THEN [i \in 1..Len(d) |-> IF d[i][1] = k THEN <<k, v>> ELSE d[i]]
    ELSE Append(d, <<k, v>>)

\* the elements of a list at the given positions, in that order
Pick(list, picks) == [i \in 1..Len(picks) |-> list[picks[i]]]

Identity(n) == [i \in 1..n |-> i]

----------------------------------------------------------------------------
(* select_questions *)

\* random.sample(population, k) for 0 <= k <= len: the positions it may draw,
\* k different positions in any order
random_sample(len, k) ==
    {p \in [1..k -> 1..len] : \A i, j \in 1..k : p[i] = p[j] => i = j}

\* random.choices(population, k=k) for a non-empty population: k positions,
\* drawn independently
random_choices(len, k) == [1..k -> 1..len]

list_add_inplace(left, right) ==
    [result |-> left \o right, left |-> left \o right]

\* left + right: a new list; the left operand is what it was
list_add(left, right) ==
    [result |-> left \o right, left |-> left]

sample_with_repeats(questions_list, num_questions) ==
    {[exception |-> "None", picks |-> p, result |-> Pick(questions_list, p),
      questions_list |-> questions_list]
        : p \in [1..num_questions -> 1..Len(questions_list)]}

\* random.sample(questions_list, num_questions), line 16
sample_branch(questions_list, num_questions) ==
    IF num_questions < 0
    THEN {[exception |-> "ValueError", picks |-> <<>>, result |-> <<>>,
           questions_list |-> questions_list]}
    ELSE {[exception |-> "None", picks |-> p, result |-> Pick(questions_list, p),
           questions_list |-> questions_list]
            : p \in random_sample(Len(questions_list), num_questions)}

pad_without_pool(questions_list, num_questions) ==
    {[exception |-> "None", picks |-> c,
      result |-> list_add(<<>>, Pick(questions_list, c)).result,
      questions_list |-> questions_list]
        : c \in random_choices(Len(questions_list),
                               num_questions - Len(questions_list))}

\* questions_list + random.choices(questions_list, k=...), line 18, for a
\* non-empty list
pad_branch(questions_list, num_questions) ==
    {[exception |-> "None",
      picks |-> Identity(Len(questions_list)) \o c,
      result |-> list_add(questions_list, Pick(questions_list, c)).result,
      questions_list |-> list_add(questions_list, Pick(questions_list, c)).left]
        : c \in random_choices(Len(questions_list),
                               num_questions - Len(questions_list))}

\* The outcomes of select_questions(questions_list, num_questions): the
\* exception it raises or the list it returns ("result", the elements at
\* positions "picks"), and the argument list as the call leaves it.
\* random.choices raises IndexError on an empty population.
select_questions(questions_list, num_questions) ==
    IF num_questions <= Len(questions_list)
    THEN sample_branch(questions_list, num_questions)
    ELSE IF Len(questions_list) = 0
         THEN {[exception |-> "IndexError", picks |-> <<>>, result |-> <<>>,
                questions_list |-> questions_list]}
         ELSE pad_branch(questions_list, num_questions)

----------------------------------------------------------------------------
(* read_question_bank *)

ExcludedTopic == "Current Electricity"

\* The lines of a sample bank file, each already split at '|' into
\* <<topic, question_text, marks, image_path, options>>; a line with no
\* fourth field has image_path None, one with no further fields has no options.
SampleFile ==
    << <<"Current Electricity", 1, 1, "None", <<"a", "b">> >>,
       <<"Current Electricity", 2, 2, "circuit.png", <<>> >>,
       <<"Optics", 3, 1, "lens.png", <<"a", "b">> >>,
       <<"Optics", 4, 2, "None", <<>> >>,
       <<"Optics", 5, 1, "None", <<>> >>,
       <<"Current Electricity", 6, 1, "None", <<>> >>,
       <<"Optics", 7, 2, "lens.png", <<"a", "b">> >>,
       <<"Current Electricity", 8, 2, "None", <<>> >> >>

ImagePaths == {"circuit.png", "lens.png"}

\* the bank files of the model: at most MaxLines lines of the sample file, in
\* the order of the sample file
Files ==
    {Pick(SampleFile, p) :
        p \in UNION {{q \in [1..k -> 1..Len(SampleFile)] :
                        \A i, j \in 1..k : i < j => q[i] < q[j]} : k \in 0..MaxLines}}

\* lines 46-50: file the question of one line under its topic and its marks
file_question(topics, line) ==
    LET by_marks == get(topics, line[1], <<>>)
        question == <<line[2], line[4], line[5], line[3]>>
    IN  put(topics, line[1],
            put(by_marks, line[3], Append(get(by_marks, line[3], <<>>), question)))

RECURSIVE read_lines(_, _, _)
read_lines(topics, file, i) ==
    IF i > Len(file) THEN topics
    ELSE read_lines(file_question(topics, file[i]), file, i + 1)

\* read_question_bank: the dict topic -> marks -> list of questions
read_question_bank(file) == read_lines(<<>>, file, 1)

\* topics.get(topic, {}).get(marks, [])
bank_list(topics, topic, marks) == get(get(topics, topic, <<>>), marks, <<>>)

\* The bank after a call that was handed the list object
\* topics.get(topic, {}).get(marks, []) and left it as new_list. When either
\* key is missing, get() hands out a fresh default and the bank holds no
\* list that the call could have touched.
bank_with_list(topics, topic, marks, new_list) ==
    IF has(topics, topic) /\ has(get(topics, topic, <<>>), marks)
    THEN put(topics, topic, put(get(topics, topic, <<>>), marks, new_list))
    ELSE topics

----------------------------------------------------------------------------
(* State. *)

VARIABLES
    topics,                        \* the question bank
    num_questions_per_type,        \* dict marks -> total count
    specific_topic_questions,      \* dict topic -> dict marks -> count
    selected_questions,            \* create_question_paper's selection
    taken,                         \* per selected question: the draw that added it
    remaining_questions_per_type,  \* dict marks -> count still to draw
    doc,                           \* the paragraphs of the document, in order
    saved,                         \* doc.save has been reached
    exception,                     \* the exception that left the function
    pc,                            \* the loop or statement that runs next
    cursor,                        \* position in the loop that runs
    questions_list,                \* select_questions on its own: the argument
    num_questions,                 \* select_questions on its own: the count
    returned,                      \* select_questions on its own: what came back
    topic_cursor,                  \* prompt: position in the loop over topics
    topic_questions,               \* prompt: the dict of the topic being asked
    num_questions_per_topic,       \* prompt: dict topic -> dict marks -> count
    message                        \* prompt: the error printed last

vars == <<topics, num_questions_per_type, specific_topic_questions,
          selected_questions, taken, remaining_questions_per_type, doc, saved,
          exception, pc, cursor, questions_list, num_questions, returned,
          topic_cursor, topic_questions, num_questions_per_topic, message>>

paper_vars == <<selected_questions, taken, doc, saved, exception>>
quota_vars == <<num_questions_per_type, specific_topic_questions>>
select_vars == <<questions_list, num_questions, returned>>
prompt_vars == <<topic_cursor, topic_questions, num_questions_per_topic, message>>

NoCall == [exception |-> "None", picks |-> <<>>, result |-> <<>>, questions_list |-> <<>>]

----------------------------------------------------------------------------
(* create_question_paper *)

\* the mark values and topics that the quotas of the model name
MarkValues == <<1, 2>>
TopicNames == <<"Current Electricity", "Optics">>

Sum4(c) == c[1] + c[2] + c[3] + c[4]

\* the total quotas of the model: a count for each mark value of a subset
TotalQuotas ==
    {<<>>}
    \cup {<<<<m, n>>>> : m \in Range(MarkValues), n \in 0..MaxCount}
    \cup {<<<<1, n1>>, <<2, n2>>>> : n1 \in 0..MaxCount, n2 \in 0..MaxCount}

\* the per-topic quotas of the model: a count for each topic and mark value
TopicQuotas ==
    {<< <<TopicNames[1], <<<<1, c[1]>>, <<2, c[2]>>>> >>,
        <<TopicNames[2], <<<<1, c[3]>>, <<2, c[4]>>>> >> >> :
        c \in {x \in [1..4 -> 0..MaxCount] : Sum4(x) <= MaxCount}}

\* the (topic, marks, count) triples of a per-topic quota in the order the
\* nested loops of lines 89-90 visit them
RECURSIVE specific_items(_, _)
specific_items(specific, i) ==
    IF i > Len(specific) THEN <<>>
    ELSE [j \in 1..Len(specific[i][2]) |->
            <<specific[i][1], specific[i][2][j][1], specific[i][2][j][2]>>]
         \o specific_items(specific, i + 1)

in_any_quota(totals, marks) == TRUE

\* line 91: if marks in num_questions_per_type
in_total_quota(totals, marks) == has(totals, marks)

count_marks(selected, mark) ==
    Cardinality({i \in 1..Len(selected) : selected[i][4] = mark})

remaining_of_all(totals, selected) ==
    [i \in 1..Len(totals) |-> <<totals[i][1], totals[i][2] - Len(selected)>>]

\* lines 96-97: per mark value, the total less the selected questions of it
remaining_after(totals, selected) ==
    [i \in 1..Len(totals) |->
        <<totals[i][1], totals[i][2] - count_marks(selected, totals[i][1])>>]

RECURSIVE pool_of_all(_, _, _)
pool_of_all(bank, marks, i) ==
    IF i > Len(bank) THEN <<>>
    ELSE LET list == get(bank[i][2], marks, <<>>)
         IN  [j \in 1..Len(list) |-> [topic |-> bank[i][1], question |-> list[j]]]
             \o pool_of_all(bank, marks, i + 1)

\* lines 104-107: the questions of one mark value of every topic but the
\* excluded one, each with the topic it is filed under
RECURSIVE generic_pool(_, _, _)
generic_pool(bank, marks, i) ==
    IF i > Len(bank) THEN <<>>
    ELSE LET list == IF bank[i][1] # ExcludedTopic
                     THEN get(bank[i][2], marks, <<>>) ELSE <<>>
         IN  [j \in 1..Len(list) |-> [topic |-> bank[i][1], question |-> list[j]]]
             \o generic_pool(bank, marks, i + 1)

all_topic_questions(bank, marks) ==
    LET pool == generic_pool(bank, marks, 1)
    IN  [j \in 1..Len(pool) |-> pool[j].question]

\* lines 111-116: the selection grouped by marks, groups in the order their
\* marks first occur in the selection
RECURSIVE questions_by_marks(_, _, _)
questions_by_marks(groups, selected, i) ==
    IF i > Len(selected) THEN groups
    ELSE LET marks == selected[i][4]
         IN  questions_by_marks(
                 put(groups, marks, Append(get(groups, marks, <<>>), selected[i])),
                 selected, i + 1)

Title == [kind |-> "heading 0", n |-> 0, s |-> "Question Paper"]
Heading(marks) == [kind |-> "heading 1", n |-> marks, s |-> "-Mark Questions"]
Paragraph(text) == [kind |-> "paragraph", n |-> text, s |-> "Question: "]
\* chr(65 + i) for the i-th option, i from 0
Bullet(i, option) == [kind |-> "List Bullet", n |-> 65 + i, s |-> option]
Picture(image_path) == [kind |-> "picture", n |-> 4, s |-> image_path]

\* lines 120-126 for the questions from the i-th on of one section; missing
\* is the set of image paths that doc.add_picture cannot open
RECURSIVE add_questions(_, _, _, _, _)
add_questions(document, marks, questions, i, missing) ==
    IF i > Len(questions) THEN [doc |-> document, exception |-> "None"]
    ELSE LET question == questions[i]
             options == question[3]
             with_text == Append(document, Paragraph(question[1]))
             with_options ==
                 IF marks = 1 /\ options # <<>>
                 THEN with_text \o [k \in 1..Len(options) |-> Bullet(k - 1, options[k])]
                 ELSE with_text
         IN  IF question[2] # "None"
             THEN IF question[2] \in missing
                  THEN [doc |-> with_options, exception |-> "FileNotFoundError"]
                  ELSE add_questions(Append(with_options, Picture(question[2])),
                                     marks, questions, i + 1, missing)
             ELSE add_questions(with_options, marks, questions, i + 1, missing)

\* lines 118-126 for the sections from the i-th on
RECURSIVE add_sections(_, _, _, _)
add_sections(document, groups, i, missing) ==
    IF i > Len(groups) THEN [doc |-> document, exception |-> "None"]
    ELSE LET section == add_questions(Append(document, Heading(groups[i][1])),
                                      groups[i][1], groups[i][2], 1, missing)
         IN  IF section.exception # "None" THEN section
             ELSE add_sections(section.doc, groups, i + 1, missing)

\* lines 80-86: the state when the selection starts, for a bank and quotas
InitPaper ==
    /\ topics \in {read_question_bank(file) : file \in Files}
    /\ num_questions_per_type \in TotalQuotas
    /\ specific_topic_questions \in TopicQuotas
    /\ selected_questions = <<>>
    /\ taken = <<>>
    /\ remaining_questions_per_type = <<>>
    /\ doc = <<Title>>
    /\ saved = FALSE
    /\ exception = "None"
    /\ pc = "specific"
    /\ cursor = 1
    /\ questions_list = <<>>
    /\ num_questions = 0
    /\ returned = NoCall
    /\ topic_cursor = 1
    /\ topic_questions = <<>>
    /\ num_questions_per_topic = <<>>
    /\ message = ""

Raise(name) ==
    /\ exception' = name
    /\ pc' = "raised"
    /\ UNCHANGED <<selected_questions, taken, remaining_questions_per_type, doc,
                   saved, cursor>>

\* lines 89-93: one round of the loops over the per-topic quota
SelectSpecific ==
    /\ pc = "specific"
    /\ cursor <= Len(specific_items(specific_topic_questions, 1))
    /\ LET item == specific_items(specific_topic_questions, 1)[cursor]
           topic == item[1]
           marks == item[2]
       IN  IF in_total_quota(num_questions_per_type, marks)
           THEN \E call \in select_questions(bank_list(topics, topic, marks), item[3]) :
                   /\ topics' = bank_with_list(topics, topic, marks, call.questions_list)
                   /\ IF call.exception = "None"
                      THEN /\ selected_questions' = selected_questions \o call.result
                           /\ taken' = taken \o
                                [k \in 1..Len(call.result) |->
                                    [draw |-> "specific", topic |-> topic, marks |-> marks]]
                           /\ cursor' = cursor + 1
                           /\ UNCHANGED <<remaining_questions_per_type, doc, saved,
                                          exception, pc>>
                      ELSE Raise(call.exception)
           ELSE /\ cursor' = cursor + 1
                /\ UNCHANGED <<topics, selected_questions, taken,
                               remaining_questions_per_type, doc, saved, exception, pc>>
    /\ UNCHANGED <<quota_vars, select_vars, prompt_vars>>

\* lines 96-100
ComputeRemaining ==
    /\ pc = "specific"
    /\ cursor > Len(specific_items(specific_topic_questions, 1))
    /\ remaining_questions_per_type' =
            remaining_after(num_questions_per_type, selected_questions)
    /\ pc' = IF \E i \in 1..Len(remaining_questions_per_type') :
                    remaining_questions_per_type'[i][2] > 0
             THEN "generic" ELSE "render"
    /\ cursor' = 1
    /\ UNCHANGED <<topics, paper_vars, quota_vars, select_vars, prompt_vars>>

\* lines 102-108: one round of the loop over the remaining counts
SelectRemaining ==
    /\ pc = "generic"
    /\ LET marks == remaining_questions_per_type[cursor][1]
           count == remaining_questions_per_type[cursor][2]
           pool == generic_pool(topics, marks, 1)
           next == IF cursor = Len(remaining_questions_per_type)
                   THEN "render" ELSE "generic"
       IN  IF count > 0
           THEN \E call \in select_questions(all_topic_questions(topics, marks), count) :
                   IF call.exception = "None"
                   THEN /\ selected_questions' = selected_questions \o call.result
                        /\ taken' = taken \o
                             [k \in 1..Len(call.result) |->
                                 [draw |-> "generic",
                                  topic |-> pool[call.picks[k]].topic,
                                  marks |-> marks]]
                        /\ cursor' = cursor + 1
                        /\ pc' = next
                        /\ UNCHANGED <<remaining_questions_per_type, doc, saved, exception>>
                   ELSE Raise(call.exception)
           ELSE /\ cursor' = cursor + 1
                /\ pc' = next
                /\ UNCHANGED <<selected_questions, taken, remaining_questions_per_type,
                               doc, saved, exception>>
    /\ UNCHANGED <<topics, quota_vars, select_vars, prompt_vars>>

\* lines 111-129: group, write the sections, save
Render ==
    /\ pc = "render"
    /\ \E missing \in SUBSET ImagePaths :
          LET written == add_sections(doc, questions_by_marks(<<>>, selected_questions, 1),
                                      1, missing)
          IN  /\ doc' = written.doc
              /\ exception' = written.exception
              /\ saved' = (written.exception = "None")
              /\ pc' = IF written.exception = "None" THEN "done" ELSE "raised"
    /\ UNCHANGED <<topics, selected_questions, taken, remaining_questions_per_type,
                   cursor, quota_vars, select_vars, prompt_vars>>

Next == SelectSpecific \/ ComputeRemaining \/ SelectRemaining \/ Render

Spec == InitPaper /\ [][Next]_vars

----------------------------------------------------------------------------
(* select_questions on its own *)

PoolItems == {"p", "q"}

Pools == UNION {[1..k -> PoolItems] : k \in 0..MaxLen}

InitSelect ==
    /\ questions_list \in Pools
    /\ num_questions \in (-1)..MaxN
    /\ returned = NoCall
    /\ exception = "None"
    /\ pc = "call"
    /\ topics = <<>>
    /\ num_questions_per_type = <<>>
    /\ specific_topic_questions = <<>>
    /\ selected_questions = <<>>
    /\ taken = <<>>
    /\ remaining_questions_per_type = <<>>
    /\ doc = <<>>
    /\ saved = FALSE
    /\ cursor = 1
    /\ topic_cursor = 1
    /\ topic_questions = <<>>
    /\ num_questions_per_topic = <<>>
    /\ message = ""

\* lines 15-18: one call
Select ==
    /\ pc = "call"
    /\ \E call \in select_questions(questions_list, num_questions) :
          /\ returned' = call
          /\ questions_list' = call.questions_list
          /\ exception' = call.exception
          /\ pc' = IF call.exception = "None" THEN "returned" ELSE "raised"
    /\ UNCHANGED <<topics, quota_vars, selected_questions, taken,
                   remaining_questions_per_type, doc, saved, cursor, num_questions,
                   prompt_vars>>

NextSelect == Select

SpecSelect == InitSelect /\ [][NextSelect]_vars

----------------------------------------------------------------------------
(* prompt_user_for_input *)

\* line 156
MarkTypes == <<1, 2, 3, 5>>

\* what may be typed at a prompt for a count: text that int() rejects, or an
\* integer
Inputs ==
    {[parses |-> FALSE, value |-> 0]}
    \cup {[parses |-> TRUE, value |-> v] : v \in (-1)..MaxInput}

\* the banks whose topics are prompted for: none, the sample file, and lines
\* 3 to 6 of it, where Optics comes first
PromptFiles == {<<>>, SampleFile, SubSeq(SampleFile, 3, 6)}

check_sign_only(count, max_questions) ==
    IF count < 0 THEN "non-negative" ELSE "ok"

\* lines 182-186: the error a per-topic count is rejected with
check_topic_count(count, max_questions) ==
    IF count < 0 THEN "non-negative"
    ELSE IF count > max_questions THEN "exceeds" ELSE "ok"

InitPrompt ==
    /\ topics \in {read_question_bank(file) : file \in PromptFiles}
    /\ num_questions_per_type = <<>>
    /\ remaining_questions_per_type = <<>>
    /\ num_questions_per_topic = <<>>
    /\ topic_questions = <<>>
    /\ specific_topic_questions = <<>>
    /\ pc = "totals"
    /\ cursor = 1
    /\ topic_cursor = 1
    /\ message = ""
    /\ selected_questions = <<>>
    /\ taken = <<>>
    /\ doc = <<>>
    /\ saved = FALSE
    /\ exception = "None"
    /\ questions_list = <<>>
    /\ num_questions = 0
    /\ returned = NoCall

\* lines 156-167: one input for the total of one mark type
PromptTotal ==
    /\ pc = "totals"
    /\ \E input \in Inputs :
          IF ~input.parses
          THEN /\ message' = "valid integer"
               /\ UNCHANGED <<num_questions_per_type, remaining_questions_per_type,
                              cursor, pc>>
          ELSE IF input.value < 0
          THEN /\ message' = "non-negative"
               /\ UNCHANGED <<num_questions_per_type, remaining_questions_per_type,
                              cursor, pc>>
          ELSE /\ num_questions_per_type' =
                    put(num_questions_per_type, MarkTypes[cursor], input.value)
               /\ remaining_questions_per_type' =
                    put(remaining_questions_per_type, MarkTypes[cursor], input.value)
               /\ cursor' = IF cursor = Len(MarkTypes) THEN 1 ELSE cursor + 1
               /\ pc' = IF cursor < Len(MarkTypes) THEN "totals"
                        ELSE IF Len(topics) = 0 THEN "filename" ELSE "topics"
               /\ UNCHANGED message
    /\ UNCHANGED <<topics, specific_topic_questions, paper_vars, select_vars,
                   topic_cursor, topic_questions, num_questions_per_topic>>

\* lines 172-193: one input for the count of one mark type of one topic
PromptTopic ==
    /\ pc = "topics"
    /\ LET topic == keys(topics)[topic_cursor]
           mark_type == keys(num_questions_per_type)[cursor]
           max_questions == get(remaining_questions_per_type, mark_type, 0)
       IN  \E input \in Inputs :
              IF ~input.parses
              THEN /\ message' = "valid integer"
                   /\ UNCHANGED <<remaining_questions_per_type, cursor, pc, topic_cursor,
                                  topic_questions, num_questions_per_topic>>
              ELSE IF check_topic_count(input.value, max_questions) # "ok"
              THEN /\ message' = check_topic_count(input.value, max_questions)
                   /\ UNCHANGED <<remaining_questions_per_type, cursor, pc, topic_cursor,
                                  topic_questions, num_questions_per_topic>>
              ELSE LET asked == put(topic_questions, mark_type, input.value)
                       last_mark == cursor = Len(num_questions_per_type)
                       last_topic == topic_cursor = Len(topics)
                   IN  /\ remaining_questions_per_type' =
                            put(remaining_questions_per_type, mark_type,
                                max_questions - input.value)
                       /\ num_questions_per_topic' =
                            IF last_mark THEN put(num_questions_per_topic, topic, asked)
                            ELSE num_questions_per_topic
                       /\ topic_questions' =
                            IF last_mark /\ ~last_topic THEN <<>> ELSE asked
                       /\ cursor' = IF last_mark THEN 1 ELSE cursor + 1
                       /\ topic_cursor' =
                            IF last_mark /\ ~last_topic THEN topic_cursor + 1
                            ELSE topic_cursor
                       /\ pc' = IF last_mark /\ last_topic THEN "filename" ELSE "topics"
                       /\ UNCHANGED message
    /\ UNCHANGED <<topics, num_questions_per_type, specific_topic_questions, paper_vars,
                   select_vars>>

\* lines 195-196 and 207: the filename is read and the quotas are returned
PromptFilename ==
    /\ pc = "filename"
    /\ pc' = "returned"
    /\ specific_topic_questions' = num_questions_per_topic
    /\ UNCHANGED <<topics, num_questions_per_type, remaining_questions_per_type,
                   paper_vars, select_vars, cursor, prompt_vars>>

NextPrompt == PromptTotal \/ PromptTopic \/ PromptFilename

SpecPrompt == InitPrompt /\ [][NextPrompt]_vars

----------------------------------------------------------------------------
(* Properties of select_questions, under SpecSelect. *)

Injective(p) == \A i, j \in DOMAIN p : p[i] = p[j] => i = j

\* C1: for 0 <= n <= |P|, select_questions(P, n) returns exactly n elements,
\* each a member of P and each taken from a different position of P.
C1_SampleDistinctPositions ==
    (pc = "returned" /\ 0 <= num_questions /\ num_questions <= Len(questions_list))
    => /\ Len(returned.result) = num_questions
       /\ \E p \in [1..num_questions -> 1..Len(questions_list)] :
             /\ Injective(p)
             /\ \A i \in 1..num_questions : returned.result[i] = questions_list[p[i]]

\* C1's case: two elements were sampled from a pool of three that holds the
\* same value at two positions, and both positions were used.
C1_Witness ==
    /\ pc = "returned"
    /\ num_questions = 2
    /\ questions_list = <<"p", "p", "q">>
    /\ returned.result = <<"p", "p">>

\* C2: for a non-empty P and n > |P|, select_questions(P, n) returns exactly n
\* elements: the whole of P once, in order, followed by n - |P| members of P.
C2_PadKeepsWholePool ==
    (pc = "returned" /\ num_questions > Len(questions_list))
    => /\ Len(questions_list) > 0
       /\ Len(returned.result) = num_questions
       /\ SubSeq(returned.result, 1, Len(questions_list)) = questions_list
       /\ \A i \in 1..num_questions : returned.result[i] \in Range(questions_list)

\* C2's case: four elements were asked of a pool of two, and the tail repeats
\* one member of the pool.
C2_Witness ==
    /\ pc = "returned"
    /\ num_questions = 4
    /\ questions_list = <<"p", "q">>
    /\ returned.result = <<"p", "q", "q", "q">>

\* C4: select_questions([], n) for n > 0 ends in the dedicated
\* EmptyPoolError. (The code ends in the IndexError of random.choices.)
C4_EmptyPoolError ==
    (pc # "call" /\ Len(questions_list) = 0 /\ num_questions > 0)
    => (pc = "raised" /\ exception = "EmptyPoolError")

----------------------------------------------------------------------------
(* Properties of create_question_paper, under Spec. *)

\* the selection phase (lines 86-108) has run to its end
SelectionComplete ==
    pc \in {"render", "done"} \/ (pc = "raised" /\ exception = "FileNotFoundError")

\* the sum over the topics of the per-topic counts of one mark value
RECURSIVE topic_sum(_, _, _)
topic_sum(specific, marks, i) ==
    IF i > Len(specific) THEN 0
    ELSE get(specific[i][2], marks, 0) + topic_sum(specific, marks, i + 1)

\* no count is negative and, per mark value of the total quota, the per-topic
\* counts sum to at most the total
ValidQuota(totals, specific) ==
    /\ \A i \in 1..Len(totals) : totals[i][2] >= 0
    /\ \A i \in 1..Len(specific) : \A j \in 1..Len(specific[i][2]) :
          specific[i][2][j][2] >= 0
    /\ \A i \in 1..Len(totals) : topic_sum(specific, totals[i][1], 1) <= totals[i][2]

\* C3: for a valid quota, the finished selection holds, for each mark value
\* of the total quota, exactly the requested total of questions of that mark.
C3_QuotaExact ==
    (SelectionComplete /\ ValidQuota(num_questions_per_type, specific_topic_questions))
    => \A i \in 1..Len(num_questions_per_type) :
          count_marks(selected_questions, num_questions_per_type[i][1])
            = num_questions_per_type[i][2]

\* C3's case: a valid quota with totals for both mark values, filled by a
\* per-topic draw and by a generic draw.
C3_Witness ==
    /\ SelectionComplete
    /\ ValidQuota(num_questions_per_type, specific_topic_questions)
    /\ Len(num_questions_per_type) = 2
    /\ get(num_questions_per_type, 1, 0) = 2
    /\ \E i, j \in 1..Len(taken) : taken[i].draw = "specific" /\ taken[j].draw = "generic"

\* C5: every question added by the generic draw comes from the list of a
\* topic other than the excluded topic.
C5_GenericDrawExcludesTopic ==
    \A i \in 1..Len(taken) :
        taken[i].draw = "generic"
        => /\ taken[i].topic # ExcludedTopic
           /\ selected_questions[i]
                \in Range(bank_list(topics, taken[i].topic, taken[i].marks))

\* C5's case: the bank holds a question of the excluded topic with the marks
\* of a generic draw, and the excluded topic's own quota has put one of its
\* questions in the selection.
C5_Witness ==
    /\ \E i, j \in 1..Len(taken) :
          /\ taken[i].draw = "generic"
          /\ taken[j].draw = "specific"
          /\ taken[j].topic = ExcludedTopic
          /\ taken[j].marks = taken[i].marks
          /\ Len(bank_list(topics, ExcludedTopic, taken[i].marks)) > 0

Headings == SelectSeq(doc, LAMBDA item : item.kind = "heading 1")

\* C7: the section headings of the paper are written in strictly ascending
\* order of the mark value; stated here for the valid quotas alone. (The code
\* writes them in the order the mark values first occur in the selection.)
C7_SectionsAscending ==
    ValidQuota(num_questions_per_type, specific_topic_questions)
    => \A i, j \in 1..Len(Headings) : i < j => Headings[i].n < Headings[j].n

\* C8: create_question_paper leaves the bank as it is, in every step.
C8_BankUnchanged == [][topics' = topics]_vars

\* C8's case: a per-topic draw has asked a list for more questions than it
\* holds, and the generation has then failed in a later draw.
C8_Witness ==
    /\ pc = "raised"
    /\ exception = "IndexError"
    /\ Len(selected_questions) >= 2
    /\ selected_questions[1] = selected_questions[2]
    /\ taken[1].draw = "specific"

\* C9: a failure to add the image of a selected question does not leave
\* create_question_paper, and the document is still saved; stated here for
\* the valid quotas alone. (In the code the exception of doc.add_picture
\* leaves the function before doc.save.)
C9_ImageFailureNotFatal ==
    ValidQuota(num_questions_per_type, specific_topic_questions)
    => ~(pc = "raised" /\ exception = "FileNotFoundError")

\* C10: the selection holds only questions whose marks are a key of the total
\* quota: no per-topic draw is made for a mark value absent from the total
\* quota, and every per-topic draw adds only questions of that topic's own
\* list for that mark value.
C10_OnlyMarksOfTotalQuota ==
    \A i \in 1..Len(selected_questions) :
        /\ has(num_questions_per_type, selected_questions[i][4])
        /\ has(num_questions_per_type, taken[i].marks)
        /\ taken[i].draw = "specific"
           => /\ selected_questions[i][4] = taken[i].marks
              /\ selected_questions[i]
                   \in Range(bank_list(topics, taken[i].topic, taken[i].marks))

\* C10's case: the per-topic quota asks a topic for a question of a mark value
\* that the total quota lacks and the topic has, and the paper was generated
\* from other draws.
C10_Witness ==
    /\ pc = "done"
    /\ Len(selected_questions) > 0
    /\ \E i \in 1..Len(specific_topic_questions) :
          \E j \in 1..Len(specific_topic_questions[i][2]) :
             LET topic == specific_topic_questions[i][1]
                 entry == specific_topic_questions[i][2][j]
             IN  /\ entry[2] > 0
                 /\ ~has(num_questions_per_type, entry[1])
                 /\ Len(bank_list(topics, topic, entry[1])) > 0

----------------------------------------------------------------------------
(* Properties of prompt_user_for_input, under SpecPrompt. *)

\* C6: at every point of the prompting the count left of each mark type is
\* >= 0, and the quota returned has no negative count and, per mark type,
\* per-topic counts that sum to at most the total.
C6_PromptKeepsQuotaValid ==
    /\ \A i \in 1..Len(remaining_questions_per_type) :
          remaining_questions_per_type[i][2] >= 0
    /\ pc = "returned"
       => /\ keys(num_questions_per_type) = MarkTypes
          /\ keys(specific_topic_questions) = keys(topics)
          /\ ValidQuota(num_questions_per_type, specific_topic_questions)

\* C6's case: a per-topic count was rejected for exceeding what was left, and
\* the quota returned gives counts to two topics.
C6_Witness ==
    /\ pc = "returned"
    /\ message = "exceeds"
    /\ Len(specific_topic_questions) = 2
    /\ get(specific_topic_questions[1][2], 1, 0) = 1
    /\ get(specific_topic_questions[2][2], 2, 0) = 1

====
